---------------------------- MODULE Spec2Model ----------------------------
(***************************************************************************)
(* A model of WgcBridge/WgcBridge.cpp: the per-frame capture pipeline of   *)
(* CaptureSession::OnFrameArrived (crop, scale, readback, publish) and the *)
(* exported consumer calls that exchange the latest host buffer with it.   *)
(***************************************************************************)
EXTENDS Integers, Sequences, FiniteSets, TLC

(***************************************************************************)
(* Program constants.                                                      *)
(***************************************************************************)
\* const int SAFE_MAX = 8192, also the ceiling of the frame-size check.
SAFE_MAX == 8192
\* B8G8R8A8: rs = (size_t)w * 4.
BytesPerPixel == 4
\* A float has a 24 bit significand.
FloatMantBits == 24

(***************************************************************************)
(* Bounds of the model.                                                    *)
(***************************************************************************)
\* Frames the capture service delivers.
MaxFrames == 3
\* Leases held at the same time.
MaxLeases == 2
\* ReleaseLatestFrame calls that match no lease.
MaxStray == 1
\* Callbacks that return at the closing check.
MaxRefused == 2

(***************************************************************************)
(* float arithmetic of the Scale Stage.  A positive float is <<m, e>>,     *)
(* standing for m * 2^e with 2^23 <= m < 2^24; zero is <<0, 0>>.           *)
(***************************************************************************)
Pow2(k) == 2 ^ k

RECURSIVE BitLen(_)
BitLen(n) ==
  CHOOSE b \in {IF v = 0 THEN 0 ELSE 1 + BitLen(v \div 2) : v \in {n}} : TRUE

\* Long division: shifts quotient bits into acc until it has 24 of them.
RECURSIVE DivBits(_, _, _, _)
DivBits(acc, r, d, e) ==
  CHOOSE q \in {IF a >= Pow2(FloatMantBits - 1)
                THEN <<a, b, e>>
                ELSE IF 2 * b >= d
                     THEN DivBits(2 * a + 1, 2 * b - d, d, e - 1)
                     ELSE DivBits(2 * a, 2 * b, d, e - 1) : a \in {acc}, b \in {r}} : TRUE

\* (float)n / d for integers 0 <= n < 2^23, 0 < d: the quotient rounded to
\* nearest, ties to even.
FloatDiv(n, d) ==
  IF n = 0 THEN <<0, 0>>
  ELSE LET q   == DivBits(n \div d, n % d, d, 0)
           up  == 2 * q[2] > d \/ (2 * q[2] = d /\ q[1] % 2 = 1)
           m   == IF up THEN q[1] + 1 ELSE q[1]
       IN  IF m = Pow2(FloatMantBits) THEN <<Pow2(FloatMantBits - 1), q[3] + 1>>
           ELSE <<m, q[3]>>

\* a < b on floats.
FloatLess(a, b) ==
  IF a[1] = 0 THEN b[1] # 0
  ELSE IF b[1] = 0 THEN FALSE
  ELSE a[2] < b[2] \/ (a[2] = b[2] /\ a[1] < b[1])

\* (std::min)(a, b): b < a ? b : a.
FloatMin(a, b) == IF FloatLess(b, a) THEN b ELSE a

\* (int)(c * f) for an integer 0 < c <= 2^13 and a float f: the product is
\* rounded to a float (nearest, ties to even) and then truncated.  The exact
\* product c * m is kept as H * 4096 + L so that no step leaves 32 bits.
FloatMulToInt(c, f) ==
  IF f[1] = 0 THEN 0
  ELSE LET mh   == f[1] \div 4096
           ml   == f[1] % 4096
           H    == c * mh + ((c * ml) \div 4096)
           L    == (c * ml) % 4096
           drop == BitLen(H) - 12
           M    == IF drop <= 12
                   THEN H * Pow2(12 - drop) + (L \div Pow2(drop))
                   ELSE H \div Pow2(drop - 12)
           rem  == IF drop <= 12
                   THEN L % Pow2(drop)
                   ELSE (H % Pow2(drop - 12)) * 4096 + L
           Mr   == IF drop = 0 THEN M
                   ELSE IF rem > Pow2(drop - 1) \/ (rem = Pow2(drop - 1) /\ M % 2 = 1)
                        THEN M + 1 ELSE M
           sh   == drop + f[2]
       IN  IF sh >= 0 THEN Mr * Pow2(sh)
           ELSE IF 0 - sh > FloatMantBits THEN 0
           ELSE Mr \div Pow2(0 - sh)

Max(a, b) == IF a > b THEN a ELSE b

\* float scale = (std::min)((float)maxWidth / currentW, (float)maxHeight / currentH);
ScaleOf(mw, mh, cw, ch) == FloatMin(FloatDiv(mw, cw), FloatDiv(mh, ch))

\* int targetW = (std::max)(1, (int)(currentW * scale)); and targetH alike.
TargetDims(mw, mh, cw, ch) ==
  CHOOSE t \in {<<Max(1, FloatMulToInt(cw, scale)), Max(1, FloatMulToInt(ch, scale))>> :
                  scale \in {ScaleOf(mw, mh, cw, ch)}} : TRUE


(***************************************************************************)
(* Inputs.                                                                 *)
(***************************************************************************)
\* desc.Width, desc.Height of the frames TryGetNextFrame hands out.
FrameInputs == {<<1920, 1080>>, <<0, 1080>>, <<8193, 1080>>}
\* TryGetNextFrame returned no frame.
NoFrame == <<>>
\* Arguments of SetCaptureMaxResolution.
MaxResInputs == {<<320, 200>>}
\* Arguments of SetCaptureCropRect.
CropInputs == {<<100, 100, 640, 480>>}
\* bufferSize arguments of GetLatestFrame.
SizeInputs == {640 * 480 * 4}

\* Threads of the free-threaded frame pool that run OnFrameArrived.
Procs == {1, 2}
\* Heap blocks the vectors' storage comes from; 0 is the null pointer.
Stores == 1 .. 5

(***************************************************************************)
(* State.                                                                  *)
(***************************************************************************)
VARIABLES
  latestData,            \* std::vector: [id, size, cap]
  backBuffer,            \* std::vector: [id, size, cap]
  heap,                  \* block -> the bytes in it
  dataMutex,             \* 0, or the thread inside a lock_guard on it
  readers, width, height, frameCount,
  maxWidth, maxHeight,
  cropX, cropY, cropW, cropH,
  closing,
  destroy,               \* how far DestroyCaptureSession has got
  refused,               \* history: callbacks that returned at the closing check
  croppedTexture, croppedTextureWidth, croppedTextureHeight,
  scaledTexture, scaledTextureDesc,
  stagingTexture, stagingTextureWidth, stagingTextureHeight,
  latestGpuTexture,
  pc, loc,               \* each callback thread's position and locals
  nFrames,               \* frames the capture service has handed out
  leases,                \* what the consumers hold from AcquireLatestFrame
  stray,                 \* ReleaseLatestFrame calls that matched no lease
  swaps,                 \* history: the swaps into latestData so far
  lastPub,               \* history: what the last swap installed
  ret                    \* the last consumer call and what it returned

session == <<latestData, backBuffer, heap, dataMutex, readers, width, height,
             frameCount, maxWidth, maxHeight, cropX, cropY, cropW, cropH, closing, destroy, refused>>
gpu == <<croppedTexture, croppedTextureWidth, croppedTextureHeight, scaledTexture,
         scaledTextureDesc, stagingTexture, stagingTextureWidth,
         stagingTextureHeight, latestGpuTexture>>
vars == <<session, gpu, pc, loc, nFrames, leases, stray, swaps, lastPub, ret>>

\* A default-constructed std::vector.
EmptyVec == [id |-> 0, size |-> 0, cap |-> 0]
\* A null com_ptr.
NoTex == [w |-> 0, h |-> 0]
\* The pixels of frame `tag`, tightly packed at w x h.
Pixels(tag, w, h) == [tag |-> tag, w |-> w, h |-> h]
\* A heap block that is not allocated, and the bytes of one that holds no
\* whole frame (fresh, or resized over an older frame).
FreeBlock == [tag |-> -1, w |-> 0, h |-> 0]
Scratch == [tag |-> -2, w |-> 0, h |-> 0]
NoPub == [id |-> 0, w |-> 0, h |-> 0, size |-> 0, data |-> FreeBlock, by |-> 0]
NoRet == [op |-> "none", ok |-> FALSE, w |-> 0, h |-> 0, size |-> 0, id |-> 0,
          arg |-> 0, wrote |-> 0, data |-> FreeBlock,
          null |-> FALSE, val |-> "none", tex |-> "none"]

\* The locals of OnFrameArrived before its first statement.
InitLoc ==
  [localCropX |-> 0, localCropY |-> 0, localCropW |-> 0, localCropH |-> 0,
   descW |-> 0, descH |-> 0, tag |-> 0,
   currentGpu |-> "none", currentW |-> 0, currentH |-> 0, gpuTag |-> 0,
   useScaler |-> FALSE, readW |-> 0, readH |-> 0, targetW |-> 0, targetH |-> 0,
   scaledMapped |-> FALSE, frameUpdated |-> FALSE, mapped |-> FreeBlock,
   localBuffer |-> EmptyVec, swapped |-> FALSE]

Init ==
  /\ latestData = EmptyVec /\ backBuffer = EmptyVec
  /\ heap = [i \in Stores |-> FreeBlock]
  /\ dataMutex = 0
  /\ readers = 0 /\ width = 0 /\ height = 0 /\ frameCount = 0
  /\ maxWidth = 0 /\ maxHeight = 0
  /\ cropX = 0 /\ cropY = 0 /\ cropW = 0 /\ cropH = 0
  /\ closing = FALSE
  /\ destroy = "none"
  /\ refused = 0
  /\ croppedTexture = NoTex /\ croppedTextureWidth = 0 /\ croppedTextureHeight = 0
  /\ scaledTexture = NoTex /\ scaledTextureDesc = [w |-> 0, h |-> 0]
  /\ stagingTexture = NoTex /\ stagingTextureWidth = 0 /\ stagingTextureHeight = 0
  /\ latestGpuTexture = "none"
  /\ pc = [p \in Procs |-> "idle"]
  /\ loc = [p \in Procs |-> InitLoc]
  /\ nFrames = 0
  /\ leases = <<>>
  /\ stray = 0
  /\ swaps = 0
  /\ lastPub = NoPub
  /\ ret = NoRet

(***************************************************************************)
(* std::vector on the heap.                                                *)
(***************************************************************************)
\* operator new: some block that is free.
Alloc(h) == CHOOSE i \in Stores : h[i] = FreeBlock /\ \A j \in Stores : h[j] = FreeBlock => i <= j

\* operator delete of a vector's storage.
FreeVec(h, v) == IF v.id = 0 THEN h ELSE [h EXCEPT ![v.id] = FreeBlock]

\* v.reserve(n): a vector whose capacity is below n moves to a new block.
\* Returns <<vector, heap>>.
Reserve(h, v, n) ==
  IF v.cap >= n THEN <<v, h>>
  ELSE LET i == Alloc(h)
           moved == IF v.id = 0 THEN Scratch ELSE h[v.id]
       IN  <<[id |-> i, size |-> v.size, cap |-> n],
             [FreeVec(h, v) EXCEPT ![i] = moved]>>

\* v.resize(n): grows the storage when n is over the capacity, and sets the
\* size; the bytes are the old ones when the size stays, else a mixture.
Resize(h, v, n) ==
  LET r == Reserve(h, v, n)
      w == r[1]
  IN  IF n = 0 THEN <<[w EXCEPT !.size = 0], r[2]>>
      ELSE <<[w EXCEPT !.size = n],
             IF n = v.size THEN r[2] ELSE [r[2] EXCEPT ![w.id] = Scratch]>>

\* The bytes at v.data(): none while the vector has no storage.
Data(h, v) == IF v.id = 0 THEN FreeBlock ELSE h[v.id]

\* Faulty variant: three bytes for a pixel.
ByteSizeRgb(w, h) == (w * 3) * h

\* size_t rs = (size_t)w * 4; size_t ts = rs * h;
ByteSize(w, h) == (w * BytesPerPixel) * h


(***************************************************************************)
(* CaptureSession::OnFrameArrived, one action per step of a callback       *)
(* thread p.                                                               *)
(***************************************************************************)
Goto(p, l) == pc' = [pc EXCEPT ![p] = l]
SetLoc(p, r) == loc' = [loc EXCEPT ![p] = r]

\* Faulty variant: the flag is not looked at.
ClosingLoadSkipped(c) == FALSE

\* closing.load()
ClosingLoad(c) == c

\* The capture service raises FrameArrived while the handler is registered;
\* if (closing.load()) return;
StartFrame(p) ==
  /\ pc[p] = "idle"
  /\ nFrames < MaxFrames
  /\ destroy \in {"none", "closing"}
  /\ IF ClosingLoad(closing)
     THEN /\ refused < MaxRefused
          /\ refused' = refused + 1
          /\ UNCHANGED pc
     ELSE /\ Goto(p, "cropX")
          /\ UNCHANGED refused
  /\ UNCHANGED <<latestData, backBuffer, heap, dataMutex, readers, width, height,
                 frameCount, maxWidth, maxHeight, cropX, cropY, cropW, cropH,
                 closing, destroy, gpu, loc, nFrames, leases, stray, swaps,
                 lastPub, ret>>

\* int localCropX = cropX.load(); ... four loads, one after the other.
LoadCropX(p) ==
  /\ pc[p] = "cropX"
  /\ SetLoc(p, [loc[p] EXCEPT !.localCropX = cropX])
  /\ Goto(p, "cropY")
  /\ UNCHANGED <<session, gpu, nFrames, leases, stray, swaps, lastPub, ret>>

LoadCropY(p) ==
  /\ pc[p] = "cropY"
  /\ SetLoc(p, [loc[p] EXCEPT !.localCropY = cropY])
  /\ Goto(p, "cropW")
  /\ UNCHANGED <<session, gpu, nFrames, leases, stray, swaps, lastPub, ret>>

LoadCropW(p) ==
  /\ pc[p] = "cropW"
  /\ SetLoc(p, [loc[p] EXCEPT !.localCropW = cropW])
  /\ Goto(p, "cropH")
  /\ UNCHANGED <<session, gpu, nFrames, leases, stray, swaps, lastPub, ret>>

LoadCropH(p) ==
  /\ pc[p] = "cropH"
  /\ SetLoc(p, [loc[p] EXCEPT !.localCropH = cropH])
  /\ Goto(p, "getFrame")
  /\ UNCHANGED <<session, gpu, nFrames, leases, stray, swaps, lastPub, ret>>

\* Faulty variant: no size is refused.
ValidDescAlways(w, h) == TRUE

\* The two size checks on desc.Width and desc.Height.
ValidDesc(w, h) == ~(w <= 0 \/ h <= 0) /\ ~(w > SAFE_MAX \/ h > SAFE_MAX)

\* sender.TryGetNextFrame() and the checks down to currentW = desc.Width:
\* no frame, or a frame of a size that is refused, ends the callback.
GetFrame(p, f) ==
  /\ pc[p] = "getFrame"
  /\ IF f = NoFrame
     THEN /\ SetLoc(p, InitLoc) /\ Goto(p, "idle") /\ UNCHANGED nFrames
     ELSE /\ nFrames' = nFrames + 1
          /\ IF ValidDesc(f[1], f[2])
             THEN /\ SetLoc(p, [loc[p] EXCEPT !.descW = f[1], !.descH = f[2],
                                              !.tag = nFrames + 1,
                                              !.currentGpu = "frame",
                                              !.gpuTag = nFrames + 1,
                                              !.currentW = f[1], !.currentH = f[2]])
                  /\ Goto(p, "crop")
             ELSE /\ SetLoc(p, InitLoc) /\ Goto(p, "idle")
  /\ UNCHANGED <<session, gpu, leases, stray, swaps, lastPub, ret>>

\* if (!croppedTexture || croppedTextureWidth != localCropW || ...)
CropNeedsCreate(l) ==
  \/ croppedTexture = NoTex
  \/ croppedTextureWidth # l.localCropW
  \/ croppedTextureHeight # l.localCropH

\* The box of CopySubresourceRegion lies in the source texture.
CropInside(l) ==
  /\ l.localCropX + l.localCropW <= l.descW
  /\ l.localCropY + l.localCropH <= l.descH

\* Faulty variant: || for &&.
CropRequestedEither(l) == l.localCropW > 0 \/ l.localCropH > 0

\* if (localCropW > 0 && localCropH > 0)
CropRequested(l) == l.localCropW > 0 /\ l.localCropH > 0

\* The Crop Stage and latestGpuTexture = currentGpu.  created: whether
\* CreateTexture2D succeeds when the scratch texture has to be made.  gpuTag
\* names the frame whose pixels currentGpu holds: 0 when the box of the copy
\* leaves the source texture and the copy is not defined.
CropStage(p, created) ==
  /\ pc[p] = "crop"
  /\ LET l == loc[p]
         made == IF CropNeedsCreate(l)
                 THEN IF created
                      THEN [w |-> l.localCropW, h |-> l.localCropH]
                      ELSE NoTex
                 ELSE croppedTexture
         cropped == CropRequested(l) /\ made # NoTex
     IN  /\ IF CropRequested(l)
            THEN /\ croppedTexture' = made
                 /\ IF CropNeedsCreate(l) /\ created
                    THEN /\ croppedTextureWidth' = l.localCropW
                         /\ croppedTextureHeight' = l.localCropH
                    ELSE UNCHANGED <<croppedTextureWidth, croppedTextureHeight>>
            ELSE UNCHANGED <<croppedTexture, croppedTextureWidth, croppedTextureHeight>>
         /\ SetLoc(p, IF cropped
                      THEN [l EXCEPT !.currentGpu = "cropped",
                                     !.gpuTag = IF CropInside(l) THEN l.tag ELSE 0,
                                     !.currentW = l.localCropW,
                                     !.currentH = l.localCropH]
                      ELSE l)
         /\ latestGpuTexture' = IF cropped THEN "cropped" ELSE "frame"
  /\ Goto(p, "useScaler")
  /\ UNCHANGED <<session, scaledTexture, scaledTextureDesc, stagingTexture,
                 stagingTextureWidth, stagingTextureHeight, nFrames, leases,
                 stray, swaps, lastPub, ret>>

\* Faulty variant: the test that a bound is configured is missing.
UseScalerUnconfigured(mw, mh, cw, ch) == cw > mw \/ ch > mh

\* bool useScaler = (maxWidth > 0 && maxHeight > 0 &&
\*                   (currentW > maxWidth || currentH > maxHeight));
UseScaler(mw, mh, cw, ch) == mw > 0 /\ mh > 0 /\ (cw > mw \/ ch > mh)

ScaleCheck(p) ==
  /\ pc[p] = "useScaler"
  /\ LET l == loc[p]
         u == UseScaler(maxWidth, maxHeight, l.currentW, l.currentH)
     IN  /\ SetLoc(p, [l EXCEPT !.useScaler = u, !.readW = maxWidth,
                                !.readH = maxHeight])
         /\ Goto(p, IF u THEN "scale" ELSE "staging")
  /\ UNCHANGED <<session, gpu, nFrames, leases, stray, swaps, lastPub, ret>>

\* if (!scaledTexture || (int)scaledTextureDesc.Width != targetW ||
\*     (int)scaledTextureDesc.Height != targetH)
ScaledNeedsCreate(tw, th) ==
  \/ scaledTexture = NoTex
  \/ scaledTextureDesc.w # tw
  \/ scaledTextureDesc.h # th

\* The Scale Stage up to latestGpuTexture = scaledTexture: the target size,
\* the cached render target and the draw into it.  maxWidth and maxHeight are
\* plain ints that SetCaptureMaxResolution writes from another thread: the
\* values used here are the ones useScaler read (reread = FALSE) or the ones
\* in memory now.  created: whether CreateTexture2D succeeds when the render
\* target has to be made; its result is not tested, and scaledTextureDesc is
\* assigned either way.  A failed creation is explored in SpecTex only.
ScaleStage(p, reread, created) ==
  /\ pc[p] = "scale"
  /\ LET l  == loc[p]
         mw == IF reread THEN maxWidth ELSE l.readW
         mh == IF reread THEN maxHeight ELSE l.readH
         t  == TargetDims(mw, mh, l.currentW, l.currentH)
     IN  /\ ~created => ScaledNeedsCreate(t[1], t[2])
         /\ IF ScaledNeedsCreate(t[1], t[2])
            THEN /\ scaledTexture' = IF created THEN [w |-> t[1], h |-> t[2]]
                                     ELSE NoTex
                 /\ scaledTextureDesc' = [w |-> t[1], h |-> t[2]]
            ELSE UNCHANGED <<scaledTexture, scaledTextureDesc>>
         /\ SetLoc(p, [l EXCEPT !.targetW = t[1], !.targetH = t[2],
                                !.readW = mw, !.readH = mh,
                                !.gpuTag = IF scaledTexture' = NoTex THEN 0
                                           ELSE l.gpuTag])
         /\ latestGpuTexture' = "scaled"
  /\ Goto(p, "readback")
  /\ UNCHANGED <<session, croppedTexture, croppedTextureWidth, croppedTextureHeight,
                 stagingTexture, stagingTextureWidth, stagingTextureHeight,
                 nFrames, leases, stray, swaps, lastPub, ret>>

\* The readback texture of the Scale Stage: CreateTexture2D, CopyResource and
\* Map.  Either failure leaves the frame to the general Readback Stage.
ScaleReadback(p, ok) ==
  /\ pc[p] = "readback"
  /\ IF ok
     THEN /\ SetLoc(p, [loc[p] EXCEPT !.scaledMapped = TRUE, !.mapped =
                          Pixels(loc[p].gpuTag, scaledTextureDesc.w,
                                 scaledTextureDesc.h)])
          /\ Goto(p, "backResize")
     ELSE /\ Goto(p, "staging") /\ UNCHANGED loc
  /\ UNCHANGED <<session, gpu, nFrames, leases, stray, swaps, lastPub, ret>>

\* if (backBuffer.capacity() < ts) backBuffer.reserve(ts); backBuffer.resize(ts);
BackResize(p) ==
  /\ pc[p] = "backResize"
  /\ LET ts == ByteSize(loc[p].targetW, loc[p].targetH)
         a  == Reserve(heap, backBuffer, ts)
         b  == Resize(a[2], a[1], ts)
     IN  backBuffer' = b[1] /\ heap' = b[2]
  /\ Goto(p, "backCopy")
  /\ UNCHANGED <<latestData, dataMutex, readers, width, height, frameCount,
                 maxWidth, maxHeight, cropX, cropY, cropW, cropH, closing, destroy, refused,
                 gpu, loc, nFrames, leases, stray, swaps, lastPub, ret>>

\* memcpy(backBuffer.data(), ...) in one pass or row by row, and Unmap.
BackCopy(p) ==
  /\ pc[p] = "backCopy"
  /\ heap' = [heap EXCEPT ![backBuffer.id] = loc[p].mapped]
  /\ Goto(p, "checkS")
  /\ UNCHANGED <<latestData, backBuffer, dataMutex, readers, width, height,
                 frameCount, maxWidth, maxHeight, cropX, cropY, cropW, cropH,
                 closing, destroy, refused, gpu, loc, nFrames, leases, stray, swaps, lastPub, ret>>


\* Faulty variant: the callback never finds the buffer free.
NoReadersNever(r) == FALSE

\* readers.load(std::memory_order_acquire) == 0, the optimistic check.
NoReaders(r) == r = 0

\* Faulty variant: the swap is not guarded by a second check under the lock.
NoReadersLockedSkipped(r) == TRUE

\* readers.load(std::memory_order_relaxed) == 0, the check under the lock.
NoReadersLocked(r) == r = 0

\* Faulty variant: the counter is stored, not incremented.
FetchAddFrameCountLost(c) == 1

\* frameCount.fetch_add(1)
FetchAddFrameCount(c) == c + 1

\* The history of a swap that installs vector v with (w, h).
NotePublish(p, v, w, h) ==
  /\ swaps' = swaps + 1
  /\ lastPub' = [id |-> v.id, w |-> w, h |-> h, size |-> v.size,
                 data |-> Data(heap, v), by |-> loc[p].tag]

\* int curReaders = readers.load(acquire); if (curReaders == 0) ... else the
\* "Frame dropped (scaler)" line; frameUpdated stays false.
OptCheckScaled(p) ==
  /\ pc[p] = "checkS"
  /\ Goto(p, IF NoReaders(readers) THEN "publishS" ELSE "staging")
  /\ UNCHANGED <<session, gpu, loc, nFrames, leases, stray, swaps, lastPub, ret>>

\* lock_guard lock(dataMutex); if (readers.load(relaxed) == 0)
\* { latestData.swap(backBuffer); width.store(targetW); height.store(targetH);
PublishScaled(p) ==
  /\ pc[p] = "publishS"
  /\ dataMutex = 0
  /\ IF NoReadersLocked(readers)
     THEN /\ latestData' = backBuffer
          /\ backBuffer' = latestData
          /\ width' = loc[p].targetW
          /\ height' = loc[p].targetH
          /\ dataMutex' = p
          /\ SetLoc(p, [loc[p] EXCEPT !.swapped = TRUE])
          /\ NotePublish(p, backBuffer, loc[p].targetW, loc[p].targetH)
          /\ Goto(p, "countS")
     ELSE /\ Goto(p, "staging")
          /\ UNCHANGED <<latestData, backBuffer, width, height, dataMutex, loc,
                         swaps, lastPub>>
  /\ UNCHANGED <<heap, readers, frameCount, maxWidth, maxHeight, cropX, cropY,
                 cropW, cropH, closing, destroy, refused, gpu, nFrames, leases, stray, ret>>

\* frameCount.fetch_add(1); frameUpdated = true; } and the lock_guard ends.
\* With frameUpdated set the general Readback Stage is skipped.
CountScaled(p) ==
  /\ pc[p] = "countS"
  /\ dataMutex = p
  /\ frameCount' = FetchAddFrameCount(frameCount)
  /\ SetLoc(p, [loc[p] EXCEPT !.frameUpdated = TRUE])
  /\ dataMutex' = 0
  /\ Goto(p, "end")
  /\ UNCHANGED <<latestData, backBuffer, heap, readers, width, height, maxWidth,
                 maxHeight, cropX, cropY, cropW, cropH, closing, destroy, refused, gpu, nFrames,
                 leases, stray, swaps, lastPub, ret>>

\* if (!stagingTexture || stagingTextureWidth != copyW || ...)
\* Faulty variant: the staging texture is made once and then kept.
StagingNeedsCreateOnce(l) == stagingTexture = NoTex

\* if (!stagingTexture || stagingTextureWidth != copyW ||
\*     stagingTextureHeight != copyH)
StagingNeedsCreate(l) ==
  \/ stagingTexture = NoTex
  \/ stagingTextureWidth # l.currentW
  \/ stagingTextureHeight # l.currentH

\* if (!frameUpdated): the general Readback Stage down to Map.  outcome is
\* "ok", "createFail" (CreateTexture2D fails: frame.Close(); return;) or
\* "mapFail" (Map fails: nothing is copied or published).
Staging(p, outcome) ==
  /\ pc[p] = "staging"
  /\ ~loc[p].frameUpdated
  /\ outcome = "createFail" => StagingNeedsCreate(loc[p])
  /\ LET l == loc[p]
     IN  IF outcome = "createFail"
         THEN /\ stagingTexture' = NoTex
              /\ UNCHANGED <<stagingTextureWidth, stagingTextureHeight>>
              /\ SetLoc(p, InitLoc)
              /\ Goto(p, "idle")
         ELSE /\ IF StagingNeedsCreate(l)
                 THEN /\ stagingTexture' = [w |-> l.currentW, h |-> l.currentH]
                      /\ stagingTextureWidth' = l.currentW
                      /\ stagingTextureHeight' = l.currentH
                 ELSE UNCHANGED <<stagingTexture, stagingTextureWidth,
                                  stagingTextureHeight>>
              /\ IF outcome = "ok"
                 THEN /\ SetLoc(p, [l EXCEPT !.mapped =
                                      Pixels(l.gpuTag, l.currentW, l.currentH)])
                      /\ Goto(p, "localResize")
                 ELSE /\ Goto(p, "end") /\ UNCHANGED loc
  /\ UNCHANGED <<session, croppedTexture, croppedTextureWidth, croppedTextureHeight,
                 scaledTexture, scaledTextureDesc, latestGpuTexture, nFrames,
                 leases, stray, swaps, lastPub, ret>>

\* std::vector<unsigned char> localBuffer; ... localBuffer.resize(ts);
LocalResize(p) ==
  /\ pc[p] = "localResize"
  /\ LET r == Resize(heap, loc[p].localBuffer,
                     ByteSize(loc[p].currentW, loc[p].currentH))
     IN  /\ SetLoc(p, [loc[p] EXCEPT !.localBuffer = r[1]])
         /\ heap' = r[2]
  /\ Goto(p, "localCopy")
  /\ UNCHANGED <<latestData, backBuffer, dataMutex, readers, width, height,
                 frameCount, maxWidth, maxHeight, cropX, cropY, cropW, cropH,
                 closing, destroy, refused, gpu, nFrames, leases, stray, swaps, lastPub, ret>>

\* memcpy(localBuffer.data(), ...) in one pass or row by row, and Unmap.
LocalCopy(p) ==
  /\ pc[p] = "localCopy"
  /\ heap' = [heap EXCEPT ![loc[p].localBuffer.id] = loc[p].mapped]
  /\ Goto(p, "checkU")
  /\ UNCHANGED <<latestData, backBuffer, dataMutex, readers, width, height,
                 frameCount, maxWidth, maxHeight, cropX, cropY, cropW, cropH,
                 closing, destroy, refused, gpu, loc, nFrames, leases, stray, swaps, lastPub, ret>>

\* Faulty variant: the callback waits until no reader is left.
OptCheckLocalWaits(p) ==
  /\ pc[p] = "checkU"
  /\ NoReaders(readers)
  /\ Goto(p, "publishU")
  /\ UNCHANGED <<session, gpu, loc, nFrames, leases, stray, swaps, lastPub, ret>>

\* if (readers.load(acquire) == 0)
OptCheckLocal(p) ==
  /\ pc[p] = "checkU"
  /\ Goto(p, IF NoReaders(readers) THEN "publishU" ELSE "end")
  /\ UNCHANGED <<session, gpu, loc, nFrames, leases, stray, swaps, lastPub, ret>>

\* lock_guard lock(dataMutex); if (readers.load(relaxed) == 0)
\* { latestData.swap(localBuffer); width.store(copyW); height.store(copyH);
PublishLocal(p) ==
  /\ pc[p] = "publishU"
  /\ dataMutex = 0
  /\ IF NoReadersLocked(readers)
     THEN /\ latestData' = loc[p].localBuffer
          /\ SetLoc(p, [loc[p] EXCEPT !.localBuffer = latestData, !.swapped = TRUE])
          /\ width' = loc[p].currentW
          /\ height' = loc[p].currentH
          /\ dataMutex' = p
          /\ NotePublish(p, loc[p].localBuffer, loc[p].currentW, loc[p].currentH)
          /\ Goto(p, "countU")
     ELSE /\ Goto(p, "end")
          /\ UNCHANGED <<latestData, width, height, dataMutex, loc, swaps, lastPub>>
  /\ UNCHANGED <<backBuffer, heap, readers, frameCount, maxWidth, maxHeight, cropX,
                 cropY, cropW, cropH, closing, destroy, refused, gpu, nFrames, leases, stray, ret>>

\* frameCount.fetch_add(1); } and the lock_guard ends.
CountLocal(p) ==
  /\ pc[p] = "countU"
  /\ dataMutex = p
  /\ frameCount' = FetchAddFrameCount(frameCount)
  /\ dataMutex' = 0
  /\ Goto(p, "end")
  /\ UNCHANGED <<latestData, backBuffer, heap, readers, width, height, maxWidth,
                 maxHeight, cropX, cropY, cropW, cropH, closing, destroy, refused, gpu, loc, nFrames,
                 leases, stray, swaps, lastPub, ret>>

\* The end of the callback: localBuffer is destroyed, frame.Close().
EndFrame(p) ==
  /\ pc[p] = "end"
  /\ heap' = FreeVec(heap, loc[p].localBuffer)
  /\ SetLoc(p, InitLoc)
  /\ Goto(p, "idle")
  /\ UNCHANGED <<latestData, backBuffer, dataMutex, readers, width, height,
                 frameCount, maxWidth, maxHeight, cropX, cropY, cropW, cropH,
                 closing, destroy, refused, gpu, nFrames, leases, stray, swaps, lastPub, ret>>

\* One step of OnFrameArrived on thread p.
Producer(p) ==
  \/ StartFrame(p)
  \/ LoadCropX(p) \/ LoadCropY(p) \/ LoadCropW(p) \/ LoadCropH(p)
  \/ \E f \in FrameInputs \cup {NoFrame} : GetFrame(p, f)
  \/ \E created \in BOOLEAN : CropStage(p, created)
  \/ ScaleCheck(p)
  \/ \E reread \in BOOLEAN : ScaleStage(p, reread, TRUE)
  \/ \E ok \in BOOLEAN : ScaleReadback(p, ok)
  \/ BackResize(p) \/ BackCopy(p)
  \/ OptCheckScaled(p) \/ PublishScaled(p) \/ CountScaled(p)
  \/ \E outcome \in {"ok", "createFail", "mapFail"} : Staging(p, outcome)
  \/ LocalResize(p) \/ LocalCopy(p)
  \/ OptCheckLocal(p) \/ PublishLocal(p) \/ CountLocal(p)
  \/ EndFrame(p)


(***************************************************************************)
(* The exported calls, on a live session handle.  A call that takes        *)
(* dataMutex runs while no callback thread is inside its lock_guard.       *)
(***************************************************************************)
\* Faulty variant: a published frame is not seen.
HasFrameNever(v) == FALSE

\* Faulty variant: the empty check is missing.
HasFrameAlways(v) == TRUE

\* !s->latestData.empty()
HasFrame(v) == v.size # 0

\* Faulty variant: the lease is handed out without counting it.
FetchAddReadersLost(r) == r

\* readers.fetch_add(1) and readers.fetch_sub(1)
FetchAddReaders(r) == r + 1
FetchSubReaders(r) == r - 1

\* GetReaderCount and GetCaptureStatus on a live handle.
GetReaderCount == readers
\* Faulty variant: the count runs one ahead of the publishes.
GetCaptureStatusAhead == frameCount + 1

GetCaptureStatus == frameCount

\* Faulty variant: the size check is missing.
FitsBufferAlways(size, bufferSize) == TRUE

\* if (s->latestData.size() > bufferSize) return false; negated.
FitsBuffer(size, bufferSize) == ~(size > bufferSize)

AcquireLatestFrame ==
  /\ dataMutex = 0
  /\ Len(leases) < MaxLeases
  /\ IF HasFrame(latestData)
     THEN /\ readers' = FetchAddReaders(readers)
          /\ leases' = Append(leases, [id |-> latestData.id, size |-> latestData.size,
                                       w |-> width, h |-> height,
                                       data |-> Data(heap, latestData)])
          /\ ret' = [NoRet EXCEPT !.op = "Acquire", !.ok = TRUE, !.id = latestData.id,
                                  !.size = latestData.size, !.w = width, !.h = height]
     ELSE /\ ret' = [NoRet EXCEPT !.op = "Acquire"]
          /\ UNCHANGED <<readers, leases>>
  /\ UNCHANGED <<latestData, backBuffer, heap, dataMutex, width, height, frameCount,
                 maxWidth, maxHeight, cropX, cropY, cropW, cropH, closing, destroy, refused, gpu,
                 pc, loc, nFrames, stray, swaps, lastPub>>

\* The sequence s without its element i.
RemoveAt(s, i) == [j \in 1 .. Len(s) - 1 |-> IF j < i THEN s[j] ELSE s[j + 1]]

\* ReleaseLatestFrame by the holder of lease i.
ReleaseLatestFrame(i) ==
  /\ i \in 1 .. Len(leases)
  /\ readers' = FetchSubReaders(readers)
  /\ leases' = RemoveAt(leases, i)
  /\ UNCHANGED <<latestData, backBuffer, heap, dataMutex, width, height, frameCount,
                 maxWidth, maxHeight, cropX, cropY, cropW, cropH, closing, destroy, refused, gpu,
                 pc, loc, nFrames, stray, swaps, lastPub, ret>>

\* ReleaseLatestFrame by a caller that holds no lease.
ReleaseStray ==
  /\ stray < MaxStray
  /\ readers' = FetchSubReaders(readers)
  /\ stray' = stray + 1
  /\ UNCHANGED <<latestData, backBuffer, heap, dataMutex, width, height, frameCount,
                 maxWidth, maxHeight, cropX, cropY, cropW, cropH, closing, destroy, refused, gpu,
                 pc, loc, nFrames, leases, swaps, lastPub, ret>>

PeekLatestFrame ==
  /\ dataMutex = 0
  /\ ret' = IF HasFrame(latestData)
            THEN [NoRet EXCEPT !.op = "Peek", !.ok = TRUE, !.w = width,
                               !.h = height, !.size = latestData.size]
            ELSE [NoRet EXCEPT !.op = "Peek"]
  /\ UNCHANGED <<session, gpu, pc, loc, nFrames, leases, stray, swaps, lastPub>>

\* GetLatestFrame into a destination of bufferSize bytes: ret.wrote and
\* ret.data are what the call stored in the destination.
GetLatestFrame(bufferSize) ==
  /\ dataMutex = 0
  /\ ret' = IF ~HasFrame(latestData)
            THEN [NoRet EXCEPT !.op = "Get", !.arg = bufferSize]
            ELSE IF FitsBuffer(latestData.size, bufferSize)
            THEN [NoRet EXCEPT !.op = "Get", !.arg = bufferSize, !.ok = TRUE,
                               !.w = width, !.h = height,
                               !.size = latestData.size,
                               !.wrote = latestData.size,
                               !.data = Data(heap, latestData)]
            ELSE [NoRet EXCEPT !.op = "Get", !.arg = bufferSize,
                               !.w = width, !.h = height,
                               !.size = latestData.size]
  /\ UNCHANGED <<session, gpu, pc, loc, nFrames, leases, stray, swaps, lastPub>>

SetCaptureMaxResolution(mw, mh) ==
  /\ maxWidth' = mw
  /\ maxHeight' = mh
  /\ UNCHANGED <<latestData, backBuffer, heap, dataMutex, readers, width, height,
                 frameCount, cropX, cropY, cropW, cropH, closing, destroy, refused, gpu, pc, loc,
                 nFrames, leases, stray, swaps, lastPub, ret>>

\* if (v < 0) v = 0; for all four, if (v > SAFE_MAX) v = SAFE_MAX; for the
\* width and the height.
ClampLow(v) == IF v < 0 THEN 0 ELSE v
ClampSize(v) == IF ClampLow(v) > SAFE_MAX THEN SAFE_MAX ELSE ClampLow(v)

SetCaptureCropRect(x, y, w, h) ==
  /\ cropX' = ClampLow(x)
  /\ cropY' = ClampLow(y)
  /\ cropW' = ClampSize(w)
  /\ cropH' = ClampSize(h)
  /\ UNCHANGED <<latestData, backBuffer, heap, dataMutex, readers, width, height,
                 frameCount, maxWidth, maxHeight, closing, destroy, refused, gpu, pc, loc, nFrames,
                 leases, stray, swaps, lastPub, ret>>

Consumer ==
  \/ AcquireLatestFrame
  \/ \E i \in 1 .. MaxLeases : ReleaseLatestFrame(i)
  \/ ReleaseStray
  \/ PeekLatestFrame
  \/ \E n \in SizeInputs : GetLatestFrame(n)
  \/ \E m \in MaxResInputs : SetCaptureMaxResolution(m[1], m[2])
  \/ \E c \in CropInputs : SetCaptureCropRect(c[1], c[2], c[3], c[4])

(***************************************************************************)
(* The session with its callbacks delivered one at a time, on thread 1.    *)
(***************************************************************************)
\* The caller takes the result of its call; no other step comes between a
\* call and its return.
ReturnToCaller ==
  /\ ret # NoRet
  /\ ret' = NoRet
  /\ UNCHANGED <<session, gpu, pc, loc, nFrames, leases, stray, swaps, lastPub>>

Next ==
  \/ ret = NoRet /\ Producer(1)
  \/ ret = NoRet /\ Consumer
  \/ ReturnToCaller

Spec == Init /\ [][Next]_vars

TypeOK ==
  /\ readers \in -MaxStray .. MaxLeases
  /\ frameCount \in 0 .. MaxFrames
  /\ dataMutex \in {0} \cup Procs


(***************************************************************************)
(* SetCaptureCropRect called with arbitrary arguments.                     *)
(***************************************************************************)
\* Arguments on both sides of 0 and of SAFE_MAX.
CropArgs == {-1, 0, 100, 8192, 8193}

NextCrop ==
  \E x \in CropArgs, y \in CropArgs, w \in CropArgs, h \in CropArgs :
    SetCaptureCropRect(x, y, w, h)

SpecCrop == Init /\ [][NextCrop]_vars

(***************************************************************************)
(* DestroyCaptureSession against the callbacks.                            *)
(***************************************************************************)
\* s->closing.store(true);
DestroySetClosing ==
  /\ destroy = "none"
  /\ closing' = TRUE
  /\ destroy' = "closing"
  /\ UNCHANGED <<latestData, backBuffer, heap, dataMutex, readers, width, height,
                 frameCount, maxWidth, maxHeight, cropX, cropY, cropW, cropH,
                 refused, gpu, pc, loc, nFrames, leases, stray, swaps, lastPub, ret>>

\* session.Close(); the handlers are unregistered; framePool.Close().  None
\* of them waits for a callback that is running.
DestroyCloseFramePool ==
  /\ destroy = "closing"
  /\ destroy' = "revoked"
  /\ UNCHANGED <<latestData, backBuffer, heap, dataMutex, readers, width, height,
                 frameCount, maxWidth, maxHeight, cropX, cropY, cropW, cropH,
                 closing, refused, gpu, pc, loc, nFrames, leases, stray, swaps,
                 lastPub, ret>>

\* delete s; the destructors of the vectors free their storage and those of
\* the com_ptrs release the textures.
DestroyDelete ==
  /\ destroy = "revoked"
  /\ destroy' = "deleted"
  /\ heap' = FreeVec(FreeVec(heap, latestData), backBuffer)
  /\ latestData' = EmptyVec /\ backBuffer' = EmptyVec
  /\ croppedTexture' = NoTex /\ scaledTexture' = NoTex /\ stagingTexture' = NoTex
  /\ latestGpuTexture' = "none"
  /\ UNCHANGED <<dataMutex, readers, width, height, frameCount, maxWidth, maxHeight,
                 cropX, cropY, cropW, cropH, closing, refused, croppedTextureWidth,
                 croppedTextureHeight, scaledTextureDesc, stagingTextureWidth,
                 stagingTextureHeight, pc, loc, nFrames, leases, stray, swaps,
                 lastPub, ret>>

\* A step of a callback on a session that is deleted: every step of
\* OnFrameArrived goes through the this pointer, so what it does is not
\* defined; "undefined" stands for all that can follow.
UseAfterFree(p) ==
  /\ destroy = "deleted"
  /\ pc[p] \notin {"idle", "undefined"}
  /\ Goto(p, "undefined")
  /\ UNCHANGED <<session, gpu, loc, nFrames, leases, stray, swaps, lastPub, ret>>

NextTeardown ==
  \/ destroy # "deleted" /\ Producer(1)
  \/ UseAfterFree(1)
  \/ destroy = "none" /\ \E m \in MaxResInputs : SetCaptureMaxResolution(m[1], m[2])
  \/ DestroySetClosing
  \/ DestroyCloseFramePool
  \/ DestroyDelete

SpecTeardown == Init /\ [][NextTeardown]_vars

(***************************************************************************)
(* The exported calls on a null handle.                                    *)
(***************************************************************************)
ExportedCalls ==
  {"DestroyCaptureSession", "GetCaptureStatus", "GetReaderCount",
   "SetCaptureMaxResolution", "SetVrrEnabled", "SetBorderRequired",
   "SetCaptureCropRect", "GetLatestFrame", "PeekLatestFrame",
   "AcquireLatestFrame", "ReleaseLatestFrame", "GetD3D11Device",
   "GetLatestD3DTexture", "GetSharedHandle", "SetInteropEnabled"}

\* Faulty variant: every call falls through to the end of a void function.
NullReturnNothing(op) == "void"

\* What each call returns from its test of the handle: if (!ptr) return -1;
\* if (!s) return false; if (!s || ...) return nullptr; if (!s) return;
NullReturn(op) ==
  CASE op \in {"GetCaptureStatus", "GetReaderCount"} -> "-1"
    [] op \in {"GetLatestFrame", "PeekLatestFrame", "AcquireLatestFrame"} -> "false"
    [] op \in {"GetD3D11Device", "GetLatestD3DTexture", "GetSharedHandle"} -> "nullptr"
    [] OTHER -> "void"

\* The call op with ptr = nullptr: it returns before the session is used.
NullHandleCall(op) ==
  /\ ret' = [NoRet EXCEPT !.op = op, !.null = TRUE, !.val = NullReturn(op)]
  /\ UNCHANGED <<session, gpu, pc, loc, nFrames, leases, stray, swaps, lastPub>>

NextNull ==
  \/ ret = NoRet /\ Producer(1)
  \/ ret = NoRet /\ \E m \in MaxResInputs : SetCaptureMaxResolution(m[1], m[2])
  \/ ret = NoRet /\ \E op \in ExportedCalls : NullHandleCall(op)
  \/ ReturnToCaller

SpecNull == Init /\ [][NextNull]_vars

(***************************************************************************)
(* The callbacks against consumers that take leases, with the callback     *)
(* thread scheduled fairly.                                                *)
(***************************************************************************)
NextLease ==
  \/ ret = NoRet /\ Producer(1)
  \/ ret = NoRet /\ AcquireLatestFrame
  \/ ret = NoRet /\ \E i \in 1 .. MaxLeases : ReleaseLatestFrame(i)
  \/ ret = NoRet /\ \E m \in MaxResInputs : SetCaptureMaxResolution(m[1], m[2])
  \/ ReturnToCaller

\* A call returns to its caller, and the callback thread, runnable again
\* and again, is run again and again.  No consumer has to release a lease.
SpecLease ==
  /\ Init /\ [][NextLease]_vars
  /\ WF_vars(ReturnToCaller)
  /\ SF_vars(ret = NoRet /\ Producer(1))

(***************************************************************************)
(* The GPU getters.  ret is the texture a GPU-side consumer was handed and *)
(* is still using; the callbacks run on while it does.                     *)
(***************************************************************************)
\* if (!s || !s->latestGpuTexture) return nullptr;
\* return s->latestGpuTexture.get();   No lock is taken and no reference is
\* added.
GetLatestD3DTexture ==
  /\ ret = NoRet
  /\ ret' = IF latestGpuTexture = "none"
            THEN [NoRet EXCEPT !.op = "GetLatestD3DTexture", !.val = "nullptr"]
            ELSE [NoRet EXCEPT !.op = "GetLatestD3DTexture", !.ok = TRUE,
                               !.tex = latestGpuTexture]
  /\ UNCHANGED <<session, gpu, pc, loc, nFrames, leases, stray, swaps, lastPub>>

\* The shared handle of latestGpuTexture; queried: whether QueryInterface
\* and IDXGIResource::GetSharedHandle succeed.
GetSharedHandle(queried) ==
  /\ ret = NoRet
  /\ ret' = IF latestGpuTexture = "none" \/ ~queried
            THEN [NoRet EXCEPT !.op = "GetSharedHandle", !.val = "nullptr"]
            ELSE [NoRet EXCEPT !.op = "GetSharedHandle", !.ok = TRUE,
                               !.tex = latestGpuTexture]
  /\ UNCHANGED <<session, gpu, pc, loc, nFrames, leases, stray, swaps, lastPub>>

\* The callback on thread p copies into croppedTexture, or draws into
\* scaledTexture, in this step.
WritesCroppedTexture(p) ==
  pc[p] = "crop" /\ pc'[p] = "useScaler" /\ loc'[p].currentGpu = "cropped"
WritesScaledTexture(p) ==
  pc[p] = "scale" /\ pc'[p] = "readback"

NextGpu ==
  \/ Producer(1)
  \/ GetLatestD3DTexture
  \/ \E queried \in BOOLEAN : GetSharedHandle(queried)
  \/ ReturnToCaller
  \/ ret = NoRet /\ \E m \in MaxResInputs : SetCaptureMaxResolution(m[1], m[2])
  \/ ret = NoRet /\ \E c \in CropInputs : SetCaptureCropRect(c[1], c[2], c[3], c[4])

SpecGpu == Init /\ [][NextGpu]_vars

(***************************************************************************)
(* The target size of the Scale Stage as a function of the bound and of    *)
(* the working size: a callback that stands before the useScaler test with *)
(* a frame of the given size, on a session with the given bound.           *)
(***************************************************************************)
ScaleBounds == {<<1920, 1080>>, <<1000, 1000>>, <<320, 200>>, <<1280, 720>>,
                <<1, 1>>, <<8191, 8191>>, <<3, 7>>}
ScaleDims == {<<3840, 2160>>, <<1920, 1080>>, <<8192, 8192>>, <<641, 480>>,
              <<8192, 1>>, <<1, 8192>>, <<2560, 1440>>}

InitScale ==
  /\ latestData = EmptyVec /\ backBuffer = EmptyVec
  /\ heap = [i \in Stores |-> FreeBlock]
  /\ dataMutex = 0
  /\ readers = 0 /\ width = 0 /\ height = 0 /\ frameCount = 0
  /\ \E b \in ScaleBounds : maxWidth = b[1] /\ maxHeight = b[2]
  /\ cropX = 0 /\ cropY = 0 /\ cropW = 0 /\ cropH = 0
  /\ closing = FALSE /\ destroy = "none" /\ refused = 0
  /\ croppedTexture = NoTex /\ croppedTextureWidth = 0 /\ croppedTextureHeight = 0
  /\ scaledTexture = NoTex /\ scaledTextureDesc = [w |-> 0, h |-> 0]
  /\ stagingTexture = NoTex /\ stagingTextureWidth = 0 /\ stagingTextureHeight = 0
  /\ latestGpuTexture = "frame"
  /\ pc = [p \in Procs |-> IF p = 1 THEN "useScaler" ELSE "idle"]
  /\ \E d \in ScaleDims :
       loc = [p \in Procs |->
                IF p = 1
                THEN [InitLoc EXCEPT !.descW = d[1], !.descH = d[2], !.tag = 1,
                                     !.currentGpu = "frame", !.gpuTag = 1,
                                     !.currentW = d[1], !.currentH = d[2]]
                ELSE InitLoc]
  /\ nFrames = 1
  /\ leases = <<>>
  /\ stray = 0
  /\ swaps = 0
  /\ lastPub = NoPub
  /\ ret = NoRet

NextScale ==
  \/ ScaleCheck(1)
  \/ \E reread \in BOOLEAN : ScaleStage(1, reread, TRUE)

SpecScale == InitScale /\ [][NextScale]_vars

(***************************************************************************)
(* The cached working textures.  The callback alone, with crop rectangles  *)
(* and bounds that the caller changes between two frames, and with every   *)
(* CreateTexture2D of the three caches free to fail.                       *)
(***************************************************************************)
TexCropInputs == CropInputs \cup {<<0, 0, 320, 240>>, <<0, 0, 0, 0>>}

TexMaxResInputs == MaxResInputs \cup {<<0, 0>>}

NextTex ==
  \/ Producer(1)
  \/ \E reread \in BOOLEAN : ScaleStage(1, reread, FALSE)
  \/ pc[1] = "idle" /\ \E m \in TexMaxResInputs : SetCaptureMaxResolution(m[1], m[2])
  \/ pc[1] = "idle" /\ \E c \in TexCropInputs : SetCaptureCropRect(c[1], c[2], c[3], c[4])

SpecTex == Init /\ [][NextTex]_vars

(***************************************************************************)
(* The copy out of a mapped texture, byte by byte.  A mapped subresource   *)
(* is a sequence of bytes with RowPitch bytes from one row to the next;    *)
(* the destination is a vector already resized to width * 4 * height.      *)
(***************************************************************************)
MaxCopyW == 3
MaxCopyH == 3

\* Bytes a driver adds after the pixels of a row.
RowPads == {0, 1, 4, 8}

\* memcpy(dst + dOff, src + sOff, n)
Memcpy(dst, dOff, src, sOff, n) ==
  [i \in 1..Len(dst) |->
     IF dOff < i /\ i <= dOff + n THEN src[sOff + (i - dOff)] ELSE dst[i]]

\* Faulty variant: the source rows are taken to be tightly packed.
SrcRowOffsetPacked(y, RowPitch, rs) == y * rs

\* (uint8_t*)m.pData + (y * m.RowPitch)
SrcRowOffset(y, RowPitch, rs) == y * RowPitch

\* for (int y = 0; y < h; y++) memcpy(data + (y * rs), pData + (y * RowPitch), rs);
RECURSIVE CopyRowByRow(_, _, _, _, _, _)
CopyRowByRow(dst, src, RowPitch, rs, y, h) ==
  IF y < h
  THEN CopyRowByRow(Memcpy(dst, y * rs, src, SrcRowOffset(y, RowPitch, rs), rs),
                    src, RowPitch, rs, y + 1, h)
  ELSE dst

\* if ((size_t)m.RowPitch == rs) memcpy(data, m.pData, ts); else the loop.
ReadbackCopy(dst, src, RowPitch, rs, h) ==
  IF RowPitch = rs
  THEN Memcpy(dst, 0, src, 0, rs * h)
  ELSE CopyRowByRow(dst, src, RowPitch, rs, 0, h)

\* The mapped bytes of a w x h texture: each byte is its own offset plus one,
\* so that a byte taken from the wrong place shows.
MappedBytes(w, h, RowPitch) ==
  [bytes |-> [i \in 1..(RowPitch * h) |-> i], RowPitch |-> RowPitch, w |-> w, h |-> h]

\* A vector's bytes after resize and before the copy.
StaleBytes(n) == [i \in 1..n |-> 0]

\* Lines 331-341 on bytes.
BackCopyBytes(p) ==
  /\ pc[p] = "backCopy"
  /\ LET m == loc[p].mapped
     IN  heap' = [heap EXCEPT ![backBuffer.id] =
                    ReadbackCopy(heap[backBuffer.id], m.bytes, m.RowPitch,
                                 loc[p].targetW * BytesPerPixel, loc[p].targetH)]
  /\ Goto(p, "checkS")
  /\ UNCHANGED <<latestData, backBuffer, dataMutex, readers, width, height,
                 frameCount, maxWidth, maxHeight, cropX, cropY, cropW, cropH,
                 closing, destroy, refused, gpu, loc, nFrames, leases, stray, swaps, lastPub, ret>>

\* Lines 411-421 on bytes.
LocalCopyBytes(p) ==
  /\ pc[p] = "localCopy"
  /\ LET m == loc[p].mapped
     IN  heap' = [heap EXCEPT ![loc[p].localBuffer.id] =
                    ReadbackCopy(heap[loc[p].localBuffer.id], m.bytes, m.RowPitch,
                                 loc[p].currentW * BytesPerPixel, loc[p].currentH)]
  /\ Goto(p, "checkU")
  /\ UNCHANGED <<latestData, backBuffer, dataMutex, readers, width, height,
                 frameCount, maxWidth, maxHeight, cropX, cropY, cropW, cropH,
                 closing, destroy, refused, gpu, loc, nFrames, leases, stray, swaps, lastPub, ret>>

\* A callback that has mapped a w x h texture and resized its destination,
\* in the Scale Stage or in the general Readback Stage.
InitCopy ==
  /\ latestData = EmptyVec
  /\ dataMutex = 0
  /\ readers = 0 /\ width = 0 /\ height = 0 /\ frameCount = 0
  /\ maxWidth = 0 /\ maxHeight = 0
  /\ cropX = 0 /\ cropY = 0 /\ cropW = 0 /\ cropH = 0
  /\ closing = FALSE /\ destroy = "none" /\ refused = 0
  /\ croppedTexture = NoTex /\ croppedTextureWidth = 0 /\ croppedTextureHeight = 0
  /\ scaledTexture = NoTex /\ scaledTextureDesc = [w |-> 0, h |-> 0]
  /\ stagingTexture = NoTex /\ stagingTextureWidth = 0 /\ stagingTextureHeight = 0
  /\ latestGpuTexture = "frame"
  /\ nFrames = 1 /\ leases = <<>> /\ stray = 0 /\ swaps = 0
  /\ lastPub = NoPub /\ ret = NoRet
  /\ \E w \in 1..MaxCopyW, h \in 1..MaxCopyH, pad \in RowPads, scaled \in BOOLEAN :
       LET ts  == ByteSize(w, h)
           vec == [id |-> 1, size |-> ts, cap |-> ts]
           m   == MappedBytes(w, h, w * BytesPerPixel + pad)
       IN  /\ heap = [i \in Stores |-> IF i = 1 THEN StaleBytes(ts) ELSE <<>>]
           /\ backBuffer = IF scaled THEN vec ELSE EmptyVec
           /\ pc = [p \in Procs |-> IF p # 1 THEN "idle"
                                    ELSE IF scaled THEN "backCopy" ELSE "localCopy"]
           /\ loc = [p \in Procs |->
                       IF p # 1 THEN InitLoc
                       ELSE [InitLoc EXCEPT
                               !.tag = 1, !.gpuTag = 1, !.currentGpu = "frame",
                               !.currentW = w, !.currentH = h,
                               !.useScaler = scaled, !.scaledMapped = scaled,
                               !.targetW = IF scaled THEN w ELSE 0,
                               !.targetH = IF scaled THEN h ELSE 0,
                               !.localBuffer = IF scaled THEN EmptyVec ELSE vec,
                               !.mapped = m]]

NextCopy ==
  \/ BackCopyBytes(1)
  \/ LocalCopyBytes(1)

SpecCopy == InitCopy /\ [][NextCopy]_vars

(***************************************************************************)
(* Polling for a new frame.  A consumer reads the counter without the      *)
(* lock, and later, the callback thread running all the while, takes a     *)
(* lease or copies the frame out.  ret holds the value the poll returned   *)
(* until the second call is made.                                          *)
(***************************************************************************)
PollCaptureStatus ==
  /\ ret = NoRet
  /\ ret' = [NoRet EXCEPT !.op = "Status", !.ok = TRUE, !.arg = GetCaptureStatus]
  /\ UNCHANGED <<session, gpu, pc, loc, nFrames, leases, stray, swaps, lastPub>>

NextPoll ==
  \/ Producer(1)
  \/ PollCaptureStatus
  \/ ret.op = "Status" /\ AcquireLatestFrame
  \/ ret.op = "Status" /\ \E b \in SizeInputs : GetLatestFrame(b)
  \/ ret = NoRet /\ \E i \in 1 .. MaxLeases : ReleaseLatestFrame(i)
  \/ ret = NoRet /\ \E m \in MaxResInputs : SetCaptureMaxResolution(m[1], m[2])
  \/ ret.op # "Status" /\ ReturnToCaller

SpecPoll == Init /\ [][NextPoll]_vars

(***************************************************************************)
(* Overlapping callbacks.  The frame pool is free-threaded and             *)
(* OnFrameArrived has no guard against a second invocation: two threads    *)
(* run the callback, each with its own locals, on the one session.         *)
(***************************************************************************)
NextOverlap ==
  \/ Producer(1)
  \/ Producer(2)
  \/ \E m \in MaxResInputs : SetCaptureMaxResolution(m[1], m[2])

SpecOverlap == Init /\ [][NextOverlap]_vars

\* A thread between backBuffer.resize(ts) and the end of its swap.
UsesBackBuffer(p) == pc[p] \in {"backCopy", "checkS", "publishS"}

\* A thread about to resize, fill or swap backBuffer.
WritesBackBuffer(p) == pc[p] \in {"backResize", "backCopy", "publishS"}

(***************************************************************************)
(* Properties.                                                             *)
(***************************************************************************)
\* The positions of a callback thread between its swap and the end of its
\* lock_guard.
CountPcs == {"countS", "countU"}
\* The positions after the Crop Stage, after useScaler is computed, and
\* after the target size is computed.
BeforeCropDone == {"idle", "cropX", "cropY", "cropW", "cropH", "getFrame", "crop"}
PastCrop(p) == pc[p] \notin BeforeCropDone
PastCheck(p) == PastCrop(p) /\ pc[p] # "useScaler"
ScaledPcs == {"readback", "backResize", "backCopy", "checkS", "publishS", "countS"}
\* Swaps whose frameCount.fetch_add has been done too.
Published == swaps - Cardinality({p \in Procs : pc[p] \in CountPcs})
Abs(n) == IF n < 0 THEN 0 - n ELSE n

\* C1: when every release matched a lease, Reader Count is the number of
\* leases held, and every lease held still points to the storage of
\* latestData, of the size and with the bytes it had when the lease was
\* acquired; a swap happens with Reader Count 0, seen under the lock.
C1_LeasedBufferStable ==
  stray = 0 =>
    /\ readers = Len(leases)
    /\ \A i \in 1 .. Len(leases) :
         /\ latestData.id = leases[i].id
         /\ latestData.size = leases[i].size
         /\ heap[leases[i].id] = leases[i].data
         /\ width = leases[i].w /\ height = leases[i].h
    /\ \A p \in Procs : pc[p] \in CountPcs => readers = 0 /\ dataMutex = p

\* A lease is held while a callback that saw no reader stands at the lock.
C1_Witness ==
  /\ stray = 0
  /\ Len(leases) > 0
  /\ pc[1] \in {"publishS", "publishU"}

\* C2: a step changes Frame Counter only by completing a publish (the swap
\* and the fetch_add after it), and then by exactly 1; no other step of a
\* callback or of a consumer changes it, and it never decreases.
C2_FrameCounterSteps ==
  [][/\ frameCount' = frameCount + (Published' - Published)
     /\ Published' - Published \in {0, 1}
     /\ frameCount' >= frameCount]_vars

\* Two frames were published and one was dropped.
C2_Witness == frameCount = 2 /\ nFrames = 3 /\ pc[1] = "idle"

\* C3: a swap is done only while no lease is held, and a lease that is
\* acquired gets the buffer, width and height of the last publish.
C3_LeaseOrdersPublish ==
  [][/\ swaps' = swaps + 1 => Len(leases) = 0
     /\ Len(leases') = Len(leases) + 1 =>
          LET l == leases'[Len(leases')]
          IN  /\ l.id = lastPub.id /\ l.size = lastPub.size
              /\ l.w = lastPub.w /\ l.h = lastPub.h
              /\ l.data = lastPub.data]_vars

\* C4: Reader Count is never negative.
C4_ReaderCountNonNegative == GetReaderCount >= 0

C6_CopyOutAllOrNothing ==
  (ret.op = "Get" /\ latestData.size > 0) =>
    IF ret.arg < latestData.size
    THEN ~ret.ok /\ ret.wrote = 0 /\ ret.data = FreeBlock
    ELSE ret.ok /\ ret.wrote = latestData.size /\ ret.data = heap[latestData.id]

\* GetLatestFrame has refused a destination that is too small.
C6_Witness ==
  /\ ret.op = "Get" /\ ~ret.ok
  /\ latestData.size > ret.arg

\* C7: before the first publish AcquireLatestFrame, PeekLatestFrame and
\* GetLatestFrame return false; an AcquireLatestFrame that fails, and every
\* PeekLatestFrame and GetLatestFrame, leaves Reader Count as it was.
C7_NoFrameYet ==
  [][ret' # NoRet =>
       /\ swaps = 0 => ~ret'.ok
       /\ ~(ret'.op = "Acquire" /\ ret'.ok) => readers' = readers /\ leases' = leases]_vars

\* AcquireLatestFrame has failed on a session that has published nothing.
C7_Witness == ret.op = "Acquire" /\ ~ret.ok /\ swaps = 0 /\ nFrames > 0

\* C8, for a callback whose Scale Stage mapped its readback: what a callback
\* that found its frame over the bound publishes is within the bound, and
\* within one pixel of it on one axis.
C8_PublishedWithinBound ==
  \A p \in Procs :
    (loc[p].swapped /\ loc[p].useScaler /\ loc[p].scaledMapped) =>
      /\ width <= loc[p].readW /\ height <= loc[p].readH
      /\ width >= loc[p].readW - 1 \/ height >= loc[p].readH - 1

C10_CropSetsWorkingSize ==
  \A p \in Procs :
    PastCrop(p) =>
      LET l == loc[p]
      IN  /\ ( /\ l.localCropW > 0 /\ l.localCropH > 0
               /\ l.localCropX + l.localCropW <= l.descW
               /\ l.localCropY + l.localCropH <= l.descH
               /\ croppedTexture # NoTex ) =>
               /\ l.currentW = l.localCropW /\ l.currentH = l.localCropH
               /\ l.currentGpu = "cropped" /\ l.gpuTag = l.tag
          /\ (l.localCropW = 0 \/ l.localCropH = 0) =>
               /\ l.currentW = l.descW /\ l.currentH = l.descH
               /\ l.currentGpu = "frame"
          /\ pc[p] \in ScaledPcs =>
               /\ l.currentW > l.readW \/ l.currentH > l.readH
               /\ l.targetW <= l.readW /\ l.targetH <= l.readH
               /\ Abs(l.targetW * l.currentH - l.targetH * l.currentW)
                    <= Max(l.currentW, l.currentH)

\* The crop (100, 100, 640, 480) of a 1920 x 1080 frame went into the Scale
\* Stage as 640 x 480.
C10_Witness ==
  /\ pc[1] = "readback"
  /\ loc[1].descW = 1920 /\ loc[1].descH = 1080
  /\ loc[1].localCropX = 100 /\ loc[1].localCropY = 100
  /\ loc[1].currentGpu = "cropped"
  /\ loc[1].currentW = 640 /\ loc[1].currentH = 480
  /\ loc[1].targetW = 266 /\ loc[1].targetH = 200

PublishedState == <<latestData, Data(heap, latestData), width, height, frameCount>>
\* The positions of a callback that holds a frame.
FramePcs == {"crop", "useScaler", "scale", "staging", "localResize", "localCopy",
             "checkU", "publishU", "countU", "end"} \cup ScaledPcs
\* The positions from which a callback step can store into the published
\* state.
PublishPcs == {"publishS", "publishU"} \cup CountPcs

\* C12: a callback goes on with a frame only if its width and height are in
\* 1..8192; the step that refuses a frame, and the step in which the staging
\* texture is not created or not mapped, is taken by a callback that has not
\* published and leaves the latest buffer, its bytes, the published width and
\* height and Frame Counter as they are; and these change in no step other
\* than the publish of some callback.
C12_DroppedFrameChangesNothing ==
  [][\A p \in Procs :
       /\ pc'[p] \in FramePcs =>
            /\ loc'[p].descW >= 1 /\ loc'[p].descW <= SAFE_MAX
            /\ loc'[p].descH >= 1 /\ loc'[p].descH <= SAFE_MAX
       /\ ( \/ pc[p] = "getFrame" /\ nFrames' = nFrames + 1 /\ pc'[p] = "idle"
            \/ pc[p] = "staging" /\ pc'[p] \in {"idle", "end"} ) =>
            /\ ~loc[p].swapped
            /\ PublishedState' = PublishedState
       /\ PublishedState' # PublishedState => \E q \in Procs : pc[q] \in PublishPcs]_vars

\* After one publish, the staging texture of a later frame was not mapped.
C12_Witness ==
  /\ pc[1] = "end"
  /\ loc[1].mapped = FreeBlock /\ ~loc[1].scaledMapped /\ ~loc[1].swapped
  /\ frameCount = 1 /\ loc[1].tag = 2
  /\ GetReaderCount = 0

\* C13: the step that sets closing is the first step of the teardown and
\* changes nothing else of the session, every later step of the teardown
\* finds closing set, and a callback that starts while closing is set goes
\* back to idle in that step, with no frame fetched and no field, cache or
\* local written.
C13_ClosingFirst ==
  [][/\ destroy # destroy' =>
          IF destroy = "none"
          THEN /\ closing' /\ destroy' = "closing"
               /\ <<latestData, backBuffer, heap, gpu, width, height, frameCount>>' =
                    <<latestData, backBuffer, heap, gpu, width, height, frameCount>>
          ELSE closing /\ closing'
     /\ \A p \in Procs :
          (closing /\ pc[p] = "idle") =>
            /\ pc'[p] = "idle"
            /\ refused' # refused =>
                 <<latestData, backBuffer, heap, dataMutex, readers, width, height,
                   frameCount, gpu, loc, nFrames, swaps>>' =
                 <<latestData, backBuffer, heap, dataMutex, readers, width, height,
                   frameCount, gpu, loc, nFrames, swaps>>]_vars

\* A callback has started and returned between closing.store(true) and the
\* unregistering of the handler, after a frame was published.
C13_Witness ==
  /\ closing /\ destroy = "closing"
  /\ refused > 0
  /\ frameCount > 0

\* C14: once the session is deleted no callback is still running.
C14_NoCallbackOutlivesSession ==
  destroy = "deleted" => \A p \in Procs : pc[p] = "idle"

\* C15: a call with a null handle changes nothing of the session, of the
\* textures, of the callbacks and of the leases, and returns -1 from
\* GetCaptureStatus and GetReaderCount, false from the three frame calls,
\* null from the three GPU getters, and nothing from the setters, the release
\* and the destroy.
C15_NullHandleRejected ==
  [][ret'.null =>
       /\ <<session, gpu, pc, loc, nFrames, leases, stray, swaps, lastPub>>' =
            <<session, gpu, pc, loc, nFrames, leases, stray, swaps, lastPub>>
       /\ ret'.op \in ExportedCalls
       /\ ~ret'.ok /\ ret'.wrote = 0 /\ ret'.data = FreeBlock /\ ret'.tex = "none"
       /\ ret'.op \in {"GetCaptureStatus", "GetReaderCount"} => ret'.val = "-1"
       /\ ret'.op \in {"GetLatestFrame", "PeekLatestFrame", "AcquireLatestFrame"} =>
            ret'.val = "false"
       /\ ret'.op \in {"GetD3D11Device", "GetLatestD3DTexture", "GetSharedHandle"} =>
            ret'.val = "nullptr"
       /\ ret'.op \in {"DestroyCaptureSession", "SetCaptureMaxResolution",
                       "SetVrrEnabled", "SetBorderRequired", "SetCaptureCropRect",
                       "ReleaseLatestFrame", "SetInteropEnabled"} =>
            ret'.val = "void"]_vars

\* GetCaptureStatus(nullptr) has returned -1 while a session has published.
C15_Witness ==
  /\ ret.null /\ ret.op = "GetCaptureStatus" /\ ret.val = "-1"
  /\ frameCount > 0

\* C16: dataMutex is held only by a callback between its swap and its
\* fetch_add, never by a consumer call that has returned, and every callback
\* that has started comes to its end, whether or not a lease is ever
\* released.
C16_ProducerNeverBlocks ==
  /\ [](\A p \in Procs : dataMutex = p => pc[p] \in CountPcs)
  /\ \A p \in Procs : (pc[p] # "idle") ~> (pc[p] = "idle")

\* Every frame has gone through its callback while a lease taken on the
\* first publish is still held.
C16_Witness ==
  /\ nFrames = MaxFrames /\ pc[1] = "idle"
  /\ Len(leases) = 1 /\ GetReaderCount = 1
  /\ frameCount = 1

\* C17: while a consumer uses the texture it got from GetLatestD3DTexture or
\* GetSharedHandle, no callback copies into that texture or draws into it.
C17_HeldTextureNotWritten ==
  [][\A p \in Procs :
       (ret.ok /\ ret' = ret) =>
         /\ ret.tex = "cropped" => ~WritesCroppedTexture(p)
         /\ ret.tex = "scaled" => ~WritesScaledTexture(p)]_vars

\* C18: the target size the Scale Stage computes is that of the formula with
\* round: the axis with the smaller ratio bound/size gets its bound, the
\* other the rounded product, and 1 at least; both are within the bound and
\* one of them is the bound.
C18_TargetFitsBound ==
  (pc[1] = "readback") =>
    LET l  == loc[1]
        mw == l.readW
        mh == l.readH
        cw == l.currentW
        ch == l.currentH
        byWidth == mw * ch <= mh * cw
        exactW == IF byWidth THEN mw ELSE Max(1, (2 * cw * mh + ch) \div (2 * ch))
        exactH == IF byWidth THEN Max(1, (2 * ch * mw + cw) \div (2 * cw)) ELSE mh
    IN  /\ l.targetW = exactW /\ l.targetH = exactH
        /\ l.targetW <= mw /\ l.targetH <= mh
        /\ l.targetW = mw \/ l.targetH = mh

\* The rectangles SetCaptureCropRect has been able to store: the initial one
\* and the stored form of each rectangle passed in.
StoredRects ==
  {<<0, 0, 0, 0>>} \cup
  {<<ClampLow(c[1]), ClampLow(c[2]), ClampSize(c[3]), ClampSize(c[4])>> : c \in CropInputs}

\* C19: once a callback has loaded its four crop values, they are the four
\* fields of one stored rectangle.
C19_CropSnapshotFromOneCall ==
  \A p \in Procs :
    PastCrop(p) \/ pc[p] \in {"getFrame", "crop"} =>
      <<loc[p].localCropX, loc[p].localCropY, loc[p].localCropW, loc[p].localCropH>>
        \in StoredRects

\* C20: a callback whose Scale Stage mapped its readback and filled the back
\* buffer does not go into the general Readback Stage.
C20_ScaledReadbackSkipsGeneral ==
  \A p \in Procs :
    loc[p].scaledMapped =>
      pc[p] \notin {"staging", "localResize", "localCopy", "checkU", "publishU", "countU"}

\* C21: no step lowers the capacity of latestData, and latestData gets new
\* storage only by taking over, in a swap, the storage another vector had.
C21_LatestCapacityOnlyGrows ==
  [][/\ latestData'.cap >= latestData.cap
     /\ latestData'.id # latestData.id =>
          \/ latestData' = backBuffer /\ backBuffer' = latestData
          \/ \E p \in Procs : /\ latestData' = loc[p].localBuffer
                              /\ loc'[p].localBuffer = latestData]_vars

\* C22: an ensure step of the callback keeps the cached texture exactly when
\* one exists with the dimensions the frame requires, and makes a new one
\* otherwise; a live texture after the step has the required dimensions, and
\* they are the recorded ones.
C22_CropEnsure ==
  LET l == loc[1]
      keep == /\ croppedTexture # NoTex
              /\ croppedTextureWidth = l.localCropW
              /\ croppedTextureHeight = l.localCropH
  IN  pc[1] = "crop" /\ pc'[1] = "useScaler" /\ l.localCropW > 0 /\ l.localCropH > 0 =>
        /\ keep => UNCHANGED <<croppedTexture, croppedTextureWidth, croppedTextureHeight>>
        /\ croppedTexture' # NoTex =>
             /\ croppedTexture' = [w |-> l.localCropW, h |-> l.localCropH]
             /\ croppedTextureWidth' = l.localCropW
             /\ croppedTextureHeight' = l.localCropH

C22_ScaleEnsure ==
  LET tw == loc'[1].targetW
      th == loc'[1].targetH
      keep == /\ scaledTexture # NoTex
              /\ scaledTextureDesc = [w |-> tw, h |-> th]
  IN  pc[1] = "scale" /\ pc'[1] = "readback" =>
        /\ keep => UNCHANGED <<scaledTexture, scaledTextureDesc>>
        /\ scaledTexture' # NoTex =>
             /\ scaledTexture' = [w |-> tw, h |-> th]
             /\ scaledTextureDesc' = scaledTexture'

C22_StagingEnsure ==
  LET l == loc[1]
      keep == /\ stagingTexture # NoTex
              /\ stagingTextureWidth = l.currentW
              /\ stagingTextureHeight = l.currentH
  IN  pc[1] = "staging" /\ pc'[1] # "staging" =>
        /\ keep => UNCHANGED <<stagingTexture, stagingTextureWidth, stagingTextureHeight>>
        /\ stagingTexture' # NoTex =>
             /\ stagingTexture' = [w |-> l.currentW, h |-> l.currentH]
             /\ stagingTextureWidth' = l.currentW
             /\ stagingTextureHeight' = l.currentH

C22_TexturesRecreatedOnMismatch ==
  [][C22_CropEnsure /\ C22_ScaleEnsure /\ C22_StagingEnsure]_vars

\* A third frame whose staging texture replaced one of another size, with the
\* crop scratch and the render target live as well.
C22_Witness ==
  /\ pc[1] = "localResize" /\ loc[1].tag = 3
  /\ stagingTexture = [w |-> 320, h |-> 240]
  /\ croppedTexture = [w |-> 320, h |-> 240]
  /\ scaledTexture # NoTex
  /\ swaps = 2 /\ lastPub.w = 640


\* C23: after the copy the destination holds width * 4 * height bytes, byte i
\* of row y being mapped byte y * RowPitch + i; and where RowPitch is
\* width * 4 the single memcpy and the row loop give the same bytes.
C23_ReadbackTightlyPacked ==
  LET m   == loc[1].mapped
      rs  == m.w * BytesPerPixel
      dst == IF pc[1] = "checkS" THEN heap[backBuffer.id]
             ELSE heap[loc[1].localBuffer.id]
  IN  /\ pc[1] \in {"checkS", "checkU"} =>
           /\ Len(dst) = rs * m.h
           /\ \A y \in 0..(m.h - 1), i \in 0..(rs - 1) :
                dst[y * rs + i + 1] = m.bytes[y * m.RowPitch + i + 1]
      /\ m.RowPitch = rs =>
           Memcpy(StaleBytes(rs * m.h), 0, m.bytes, 0, rs * m.h)
             = CopyRowByRow(StaleBytes(rs * m.h), m.bytes, m.RowPitch, rs, 0, m.h)

\* A copy done row by row, out of rows that carry padding.
C23_Witness ==
  /\ pc[1] = "checkU"
  /\ loc[1].mapped.RowPitch = 2 * BytesPerPixel + 4
  /\ loc[1].mapped.h = 3
  /\ heap[loc[1].localBuffer.id][9] = 13


\* C24: whenever dataMutex is free, latestData is empty with nothing published
\* or holds width * height * 4 bytes, width, height and the storage being
\* those of the last publish; a call that returns a frame returns a size that
\* is its width * its height * 4.
C24_LatestTripleConsistent ==
  /\ dataMutex = 0 =>
       \/ latestData = EmptyVec /\ width = 0 /\ height = 0 /\ swaps = 0
       \/ /\ swaps > 0
          /\ latestData.size = width * height * 4
          /\ latestData.id = lastPub.id /\ latestData.size = lastPub.size
          /\ width = lastPub.w /\ height = lastPub.h
  /\ ret.op \in {"Acquire", "Peek", "Get"} /\ ret.ok =>
       ret.size = ret.w * ret.h * 4 /\ ret.size > 0

\* A copy-out of the second publish, which has another size than the first.
C24_Witness ==
  /\ ret.op = "Get" /\ ret.ok /\ ret.w = 640 /\ ret.h = 480 /\ ret.size = 1228800
  /\ swaps = 2 /\ frameCount = 2

\* C25: whenever dataMutex is free, latestData is non-empty exactly when
\* frameCount is over 0; a non-empty latestData stays non-empty; and with
\* frameCount over 0 AcquireLatestFrame and PeekLatestFrame return a frame.
C25_NonEmptyOnceCounted ==
  [][/\ dataMutex = 0 => (latestData.size > 0 <=> frameCount > 0)
     /\ dataMutex' = 0 => (latestData'.size > 0 <=> frameCount' > 0)
     /\ latestData.size > 0 => latestData'.size > 0
     /\ frameCount > 0 /\ ret = NoRet /\ ret'.op \in {"Acquire", "Peek"} => ret'.ok]_vars

\* A look at the frame after two publishes, one lease being held.
C25_Witness ==
  /\ ret.op = "Peek" /\ ret.ok
  /\ frameCount = 2 /\ Len(leases) = 1 /\ leases[1].id # latestData.id


\* C26: a call that follows a poll which read n finds at least n publishes
\* done, returns a frame when n is over 0, and the frame it returns is the
\* one the last of these publishes installed.
C26_PollThenAcquireIsFresh ==
  [][ret.op = "Status" /\ ret'.op \in {"Acquire", "Get"} =>
       /\ swaps >= ret.arg
       /\ ret.arg > 0 /\ ret'.op = "Acquire" => ret'.ok
       /\ ret'.ok =>
            /\ ret'.size = lastPub.size /\ ret'.w = lastPub.w /\ ret'.h = lastPub.h
            /\ ret'.op = "Acquire" =>
                 /\ ret'.id = lastPub.id
                 /\ leases'[Len(leases')].data = lastPub.data
            /\ ret'.op = "Get" => ret'.data = lastPub.data]_vars

\* A consumer has polled 1, and a second publish was made before its next
\* call.
C26_Witness ==
  /\ ret.op = "Status" /\ ret.arg = 1
  /\ swaps = 2 /\ frameCount = 2 /\ dataMutex = 0
  /\ lastPub.w = 320


\* C27: no callback thread resizes, fills or swaps backBuffer while another
\* is between its resize of backBuffer and its swap.
C27_OverlapKeepsBuffersApart ==
  \A p, q \in Procs : p # q => ~(UsesBackBuffer(p) /\ WritesBackBuffer(q))


\* C28: a callback that comes to take dataMutex finds it free, a held
\* dataMutex is held by a callback that is about to let it go, and a callback
\* that has a valid frame raises frameCount unless Reader Count is nonzero
\* at some moment of it, the session is closing, or its readback fails.
C28_ExchangeMakesProgress ==
  /\ [](\A p \in Procs : /\ pc[p] \in {"publishS", "publishU"} => dataMutex = 0
                         /\ dataMutex = p => pc[p] \in {"countS", "countU"})
  /\ \A n \in 0 .. MaxFrames :
       (pc[1] = "crop" /\ frameCount = n) ~>
          \/ frameCount > n
          \/ readers # 0
          \/ closing
          \/ pc[1] = "end" /\ ~loc[1].swapped /\ loc[1].mapped = FreeBlock
          \/ pc[1] = "idle" /\ stagingTexture = NoTex

\* The third frame is published, every lease having been given back, after
\* one of the frames before it was not.
C28_Witness ==
  /\ pc[1] = "end" /\ loc[1].swapped /\ loc[1].tag = 3
  /\ frameCount = 2 /\ readers = 0 /\ Len(leases) = 0


=============================================================================
